---------------------------- MODULE Spec2Model ----------------------------
(***************************************************************************)
(* Model of src/bot.py: a pyTelegramBotAPI (telebot) bot with slash         *)
(* commands, next-step conversational flows and threading.Timer reminders. *)
(*                                                                         *)
(* Texts are sequences of tokens.  A token is a character ("3", "-", " ")  *)
(* or a whole word ("milk"); numeric texts are spelled one character per   *)
(* token so that int() and str() are computed, not assumed.  The empty     *)
(* sequence None stands for Python's None: Telegram never delivers a text  *)
(* message with empty text, and a message without text (photo, sticker)    *)
(* has message.text = None.                                                *)
(***************************************************************************)
EXTENDS Integers, Sequences, FiniteSets, TLC

VARIABLES
    handlers,   \* bot.next_step_backend.handlers: chat -> pending continuations
    tasks,      \* bot.worker_pool task queue: handler invocations not yet run
    timers,     \* the threading.Timer objects created by schedule_reminder
    out,        \* transport sends attempted by the last step, in order
    ev,         \* the last step taken (what ran, for which message)
    alive,      \* FALSE once an exception has escaped bot.polling
    nmsgs,      \* per chat, the number of inbound messages delivered so far
    ret         \* the last call of fetch_bbc_headlines: arguments and result

vars == <<handlers, tasks, timers, out, ev, alive, nmsgs, ret>>

---------------------------------------------------------------------------
(* Bounds *)

MaxMsgs == 3

MaxRemMsgs == 6

MaxCmdMsgs == 1

MaxTopicMsgs == 7

MaxQuietMsgs == 4

MaxPage == 3

MaxLimit == 3

---------------------------------------------------------------------------
(* Chats and message texts *)

Chats == {1, 2}

ChatType(c) == IF c = 1 THEN "private" ELSE "group"

None == <<>>

Digits == <<"0", "1", "2", "3", "4", "5", "6", "7", "8", "9">>

IsDigit(ch) == \E i \in 1..10 : Digits[i] = ch

DigitVal(ch) == (CHOOSE i \in 1..10 : Digits[i] = ch) - 1

RECURSIVE LStrip(_)
LStrip(t) == IF t # <<>> /\ Head(t) = " " THEN LStrip(Tail(t)) ELSE t

RECURSIVE RStrip(_)
RStrip(t) ==
    IF t # <<>> /\ t[Len(t)] = " " THEN RStrip(SubSeq(t, 1, Len(t) - 1)) ELSE t

RECURSIVE DigitsVal(_)
DigitsVal(t) ==
    IF t = <<>> THEN 0
    ELSE 10 * DigitsVal(SubSeq(t, 1, Len(t) - 1)) + DigitVal(t[Len(t)])

(* int(message.text) for a str: surrounding whitespace is stripped, one    *)
(* optional sign, then at least one decimal digit; anything else raises    *)
(* ValueError (ok = FALSE).                                                *)
ParseInt(text) ==
    LET s    == RStrip(LStrip(text))
        sgn  == s # <<>> /\ Head(s) \in {"-", "+"}
        body == IF sgn THEN Tail(s) ELSE s
        good == body # <<>> /\ \A i \in 1..Len(body) : IsDigit(body[i])
    IN  IF good
        THEN [ok |-> TRUE,
              val |-> IF sgn /\ Head(s) = "-" THEN 0 - DigitsVal(body)
                      ELSE DigitsVal(body)]
        ELSE [ok |-> FALSE, val |-> 0]

RECURSIVE NatToText(_)
NatToText(n) ==
    IF n < 10 THEN <<Digits[n + 1]>>
    ELSE NatToText(n \div 10) \o <<Digits[(n % 10) + 1]>>

(* A text as interpolated by an f-string: str(None) is "None" *)
Str(text) == IF text = None THEN <<"None">> ELSE text

(* str(n) as interpolated by the f-string of set_reminder *)
IntToText(n) == IF n < 0 THEN <<"-">> \o NatToText(0 - n) ELSE NatToText(n)

---------------------------------------------------------------------------
(* Command dispatch: the handlers registered with @bot.message_handler, in *)
(* registration order; telebot runs the first handler whose filter matches *)

Commands ==
    <<"start", "help", "about", "contact", "quote", "extra", "flower",
      "animal", "food", "vehicle", "country", "wonder", "alert", "news",
      "chat">>

CommandHandler(name) ==
    CASE name = "start"   -> "start"
      [] name = "help"    -> "help_cmd"
      [] name = "about"   -> "about"
      [] name = "contact" -> "contact"
      [] name = "quote"   -> "send_quote"
      [] name = "extra"   -> "extra"
      [] name = "alert"   -> "get_name"
      [] name = "news"    -> "send_news"
      [] name = "chat"    -> "send_welcome"
      [] OTHER            -> name

RECURSIVE CommandToken(_)
CommandToken(t) ==
    IF t = <<>> \/ Head(t) \in {" ", "@"} THEN <<>>
    ELSE <<Head(t)>> \o CommandToken(Tail(t))

(* util.extract_command: the first word of a text that starts with "/",   *)
(* without the "/" and without an "@botname" suffix; <<>> when no command *)
ExtractCommand(text) ==
    IF text # None /\ Head(text) = "/" THEN CommandToken(Tail(text)) ELSE <<>>

IsCommand(text) ==
    \E i \in 1..Len(Commands) : ExtractCommand(text) = <<Commands[i]>>

(* The handler that the decorators select for a message when no next-step *)
(* handler took it: a command handler, else handle_message (func=lambda   *)
(* m: True, content type text), else nothing ("none") for a message       *)
(* without text.                                                          *)
Dispatch(text) ==
    IF text = None THEN "none"
    ELSE IF IsCommand(text) THEN CommandHandler(ExtractCommand(text)[1])
    ELSE "handle_message"

---------------------------------------------------------------------------
(* Handler bodies *)

quotes ==
    <<"Life is abundant, and life is beautiful. - Alice Walker",
      "Keep your head high, keep your chin up, and most importantly, keep smiling. - Marilyn Monroe",
      "I think being in love with life is a key to eternal youth. - Doug Hutchison",
      "Life is beautiful and so are you. - Debasish Mridha",
      "The purpose of our lives is to be happy. - Dalai Lama",
      "Life is really simple, but we insist on making it complicated. - Confucius",
      "Life is like riding a bicycle. To keep your balance, you must keep moving. - Albert Einstein">>

ListItems(fn) ==
    CASE fn = "flower" ->
           <<"Rose", "Lily", "Daisy", "Tulip", "Sunflower", "Orchid",
             "Carnation", "Peony", "Chrysanthemum", "Hydrangea", "Iris",
             "Poppy", "Marigold", "Gerbera">>
      [] fn = "animal" ->
           <<"Lion", "Tiger", "Elephant", "Giraffe", "Hippopotamus",
             "Crocodile", "Monkey", "Kangaroo", "Penguin", "Zebra",
             "Hedgehog", "Panda", "Koala", "Gorilla">>
      [] fn = "food" ->
           <<"Pizza", "Burger", "Taco", "Sushi", "Pasta", "Fried Chicken",
             "Steak", "Noodle Soup", "Hotdog", "Ramen">>
      [] fn = "vehicle" ->
           <<"Car", "Truck", "Motorcycle", "Bicycle", "Boat", "Airplane",
             "Helicopter", "Train", "Bus", "Scooter">>
      [] fn = "country" ->
           <<"USA", "Canada", "UK", "Germany", "France", "Italy", "Japan",
             "China", "Brazil", "Russia", "India">>
      [] fn = "wonder" ->
           <<"Great Pyramid of Giza", "Hanging Gardens of Babylon",
             "Temple of Artemis at Ephesus", "Statue of Zeus at Olympia",
             "Mausoleum at Halicarnassus", "Colossus of Rhodes",
             "Lighthouse of Alexandria">>
      [] OTHER -> <<>>

IsListCommand(fn) == ListItems(fn) # <<>>

(* send_list_privately without the chat type check *)
send_list_privately_anywhere(chatType, items) ==
    [i \in 1..Len(items) |-> <<items[i]>>]

(* send_list_privately: one refusal in a non-private chat, else one       *)
(* message per item in list order                                         *)
send_list_privately(chatType, items) ==
    IF chatType # "private"
    THEN << <<"This command is only available in private chats.">> >>
    ELSE [i \in 1..Len(items) |-> <<items[i]>>]

(* StepNext of a Sports chain that skips the step asking for the sport *)
StepNext_short(fn) ==
    CASE fn = "handle_sports_type"    -> "handle_favorite_team"
      [] fn = "handle_favorite_team"  -> "handle_current_season"
      [] fn = "handle_current_season" -> "handle_next_sport"
      [] fn = "handle_next_sport"     -> "handle_new_hobby"
      [] fn = "handle_new_sport"      -> "handle_new_hobby"
      [] fn = "handle_book_type"      -> "handle_fav_book"
      [] fn = "handle_fav_type"       -> "handle_fav_song"
      [] fn = "handle_artist"         -> "handle_event_art"
      [] OTHER                        -> ""

(* StepNext of a Sports chain whose last step starts the chain again *)
StepNext_loop(fn) ==
    CASE fn = "handle_sports_type"    -> "handle_favorite_team"
      [] fn = "handle_favorite_team"  -> "handle_current_season"
      [] fn = "handle_current_season" -> "handle_next_sport"
      [] fn = "handle_next_sport"     -> "handle_new_sport"
      [] fn = "handle_new_sport"      -> "handle_new_hobby"
      [] fn = "handle_new_hobby"      -> "handle_sports_type"
      [] fn = "handle_book_type"      -> "handle_fav_book"
      [] fn = "handle_fav_type"       -> "handle_fav_song"
      [] fn = "handle_artist"         -> "handle_event_art"
      [] OTHER                        -> ""

(* The topic chain: the successor each step registers ("" for none)       *)
StepNext(fn) ==
    CASE fn = "handle_sports_type"    -> "handle_favorite_team"
      [] fn = "handle_favorite_team"  -> "handle_current_season"
      [] fn = "handle_current_season" -> "handle_next_sport"
      [] fn = "handle_next_sport"     -> "handle_new_sport"
      [] fn = "handle_new_sport"      -> "handle_new_hobby"
      [] fn = "handle_book_type"      -> "handle_fav_book"
      [] fn = "handle_fav_type"       -> "handle_fav_song"
      [] fn = "handle_artist"         -> "handle_event_art"
      [] OTHER                        -> ""

(* The prompt a topic step replies with *)
StepPrompt(fn, text) ==
    CASE fn = "handle_sports_type"    -> <<"Nice! What's your favorite team?">>
      [] fn = "handle_favorite_team"  ->
           <<"Great choice! What do you think of their current season so far?">>
      [] fn = "handle_current_season" -> <<"Do you think they can improve ?">>
      [] fn = "handle_next_sport"     -> <<"What else sports you are interested in?">>
      [] fn = "handle_new_sport"      ->
           <<"have you taken part in ">>
             \o (IF text = None THEN <<"that sport">> ELSE text) \o <<"?">>
      [] fn = "handle_new_hobby"      -> <<"Great to know!">>
      [] fn = "handle_book_type"      -> <<"What is your favourite book?">>
      [] fn = "handle_fav_book"       -> <<"Great to know">>
      [] fn = "handle_fav_type"       -> <<"Amazing choice. What's your fav song?">>
      [] fn = "handle_fav_song"       -> <<"Great choice!">>
      [] fn = "handle_artist"         -> <<"Have you taken part in any art event?">>
      [] fn = "handle_event_art"      -> <<"Great to know!">>
      [] OTHER                        -> <<>>

IsTopicStep(fn) == StepPrompt(fn, None) # <<>>

(* KeywordStep that compares without regard to case *)
KeywordStep_nocase(text) ==
    CASE text \in {<<"Sports">>, <<"sports">>}   -> "handle_sports_type"
      [] text \in {<<"Reading">>, <<"reading">>} -> "handle_book_type"
      [] text \in {<<"Music">>, <<"music">>}     -> "handle_fav_type"
      [] text \in {<<"Art">>, <<"art">>}         -> "handle_artist"
      [] OTHER                                   -> ""

(* handle_message: the keyword brancher; "" when the text is no keyword   *)
KeywordStep(text) ==
    CASE text = <<"Sports">>  -> "handle_sports_type"
      [] text = <<"Reading">> -> "handle_book_type"
      [] text = <<"Music">>   -> "handle_fav_type"
      [] text = <<"Art">>     -> "handle_artist"
      [] OTHER                -> ""

KeywordPrompt(text) ==
    CASE text = <<"Sports">>  ->
           <<"Great choice! What kind of sports are you interested in?">>
      [] text = <<"Reading">> -> <<"Awesome! What kind of books do you like to read?">>
      [] text = <<"Music">>   -> <<"Cool! What kind of music do you like to listen to?">>
      [] text = <<"Art">>     -> <<"Awesome! Are you an artist?">>
      [] OTHER                -> <<>>

---------------------------------------------------------------------------
(* News: fetch_bbc_headlines over the outcomes of the HTTP request and of *)
(* the page parse                                                         *)

MAX_NEWS_ITEMS == 10

Member(x, seq) == \E i \in 1..Len(seq) : seq[i] = x

RECURSIVE Clean(_, _, _)
Clean(headlines, cleaned, limit) ==
    IF headlines = <<>> THEN cleaned
    ELSE LET h == Head(headlines) IN
         IF Len(h) < 5 \/ Member(h, cleaned)
         THEN Clean(Tail(headlines), cleaned, limit)
         ELSE IF Len(cleaned) + 1 >= limit
              THEN Append(cleaned, h)
              ELSE Clean(Tail(headlines), Append(cleaned, h), limit)

Headlines == {"News", "Markets rally", "Storm hits coast"}

RECURSIVE SeqsUpTo(_, _)
SeqsUpTo(S, n) ==
    IF n = 0 THEN {<<>>}
    ELSE LET shorter == SeqsUpTo(S, n - 1) IN
         shorter \cup {Append(q, x) : q \in shorter, x \in S}

(* The h3 texts of the page, in page order *)
Pages == SeqsUpTo(Headlines, MaxPage)

(* requests.get / raise_for_status fails ("fail"), or the page arrives and *)
(* parsing it raises ("parse_error") or yields its h3 texts ("ok")         *)
HttpOutcomes ==
    {[status |-> "fail", h3 |-> <<>>]}
      \cup {[status |-> st, h3 |-> pg] : st \in {"ok", "parse_error"}, pg \in Pages}

(* fetch_bbc_headlines that returns the cleaned list even when it is empty *)
fetch_bbc_headlines_empty(http, limit) ==
    IF http.status = "fail" THEN <<"Could not fetch news: {e}">>
    ELSE IF http.status = "parse_error" THEN <<"Error parsing news page: {e}">>
    ELSE Clean(http.h3, <<>>, limit)

fetch_bbc_headlines(http, limit) ==
    IF http.status = "fail" THEN <<"Could not fetch news: {e}">>
    ELSE IF http.status = "parse_error" THEN <<"Error parsing news page: {e}">>
    ELSE LET cleaned == Clean(http.h3, <<>>, limit) IN
         IF cleaned = <<>> THEN <<"No headlines found.">> ELSE cleaned

---------------------------------------------------------------------------
(* What one handler invocation does.  A task is the invocation of handler  *)
(* fn for a message (chat, text) with the extra arguments args that were   *)
(* given at registration.  The result lists, in program order, the sends   *)
(* the handler attempts, then the continuation it registers and the timer  *)
(* it creates if every send succeeded; raise names an exception raised     *)
(* before the first send.                                                  *)

Cont(fn, args) == [fn |-> fn, args |-> args]

Quiet == [raise |-> "none", sends |-> <<>>, reg |-> <<>>, sched |-> <<>>]

Say(text) == [Quiet EXCEPT !.sends = <<text>>]

SayThen(text, fn, args) ==
    [Quiet EXCEPT !.sends = <<text>>, !.reg = <<Cont(fn, args)>>]

get_name(t) ==
    SayThen(<<"What should I remind you about?">>, "get_min", <<>>)

get_min(t) ==
    SayThen(<<"In how many minutes? (Please enter time in minutes)">>,
            "set_reminder", <<t.text>>)

(* set_reminder that rejects only negative minutes *)
set_reminder_zero(t) ==
    LET reminder_text == t.args[1]
        parsed        == ParseInt(t.text)
        minutes       == parsed.val
    IN  IF t.text = None THEN [Quiet EXCEPT !.raise = "TypeError"]
        ELSE IF ~parsed.ok
        THEN Say(<<"Invalid number of minutes. Please enter a positive integer.">>)
        ELSE IF minutes < 0
        THEN Say(<<"Please enter a positive number of minutes.">>)
        ELSE [Quiet EXCEPT
                !.sends = << <<"Reminder set for ">> \o IntToText(minutes)
                               \o <<" minutes: ">> \o Str(reminder_text) >>,
                !.sched = <<[chat |-> t.chat, minutes |-> minutes,
                             text |-> reminder_text]>>]

set_reminder(t) ==
    LET reminder_text == t.args[1]
        parsed        == ParseInt(t.text)
        minutes       == parsed.val
    IN  IF t.text = None THEN [Quiet EXCEPT !.raise = "TypeError"]
        ELSE IF ~parsed.ok
        THEN Say(<<"Invalid number of minutes. Please enter a positive integer.">>)
        ELSE IF minutes <= 0
        THEN Say(<<"Please enter a positive number of minutes.">>)
        ELSE [Quiet EXCEPT
                !.sends = << <<"Reminder set for ">> \o IntToText(minutes)
                               \o <<" minutes: ">> \o Str(reminder_text) >>,
                !.sched = <<[chat |-> t.chat, minutes |-> minutes,
                             text |-> reminder_text]>>]

handle_message(t) ==
    IF KeywordStep(t.text) = "" THEN Quiet
    ELSE SayThen(KeywordPrompt(t.text), KeywordStep(t.text), <<>>)

(* TopicStep that replies without the text of the message it answers *)
TopicStep_notext(t) ==
    IF StepNext(t.fn) = "" THEN Say(StepPrompt(t.fn, None))
    ELSE SayThen(StepPrompt(t.fn, None), StepNext(t.fn), <<>>)

(* TopicStep that drops the chain when the reply is a command *)
TopicStep_branch(t) ==
    IF IsCommand(t.text) THEN Quiet
    ELSE IF StepNext(t.fn) = "" THEN Say(StepPrompt(t.fn, t.text))
    ELSE SayThen(StepPrompt(t.fn, t.text), StepNext(t.fn), <<>>)

TopicStep(t) ==
    IF StepNext(t.fn) = "" THEN Say(StepPrompt(t.fn, t.text))
    ELSE SayThen(StepPrompt(t.fn, t.text), StepNext(t.fn), <<>>)

extra(t) ==
    IF ChatType(t.chat) = "private"
    THEN Say(<<"Here are the extra commands:\n/flower, /animal, /food, /wonder, /vehicle, /country">>)
    ELSE Say(<<"The /extra command and its subcommands are not available in group chats.">>)

send_news(t, http) ==
    IF ChatType(t.chat) # "private"
    THEN Say(<<"News is not available in group chats.">>)
    ELSE LET headlines == fetch_bbc_headlines(http, MAX_NEWS_ITEMS) IN
         [Quiet EXCEPT !.sends = [i \in 1..Len(headlines) |-> <<headlines[i]>>]]

NoCall == [http |-> [status |-> "fail", h3 |-> <<>>], limit |-> 0,
           headlines |-> <<>>]

Call(http, limit) ==
    [http |-> http, limit |-> limit,
     headlines |-> fetch_bbc_headlines(http, limit)]

(* The nondeterministic inputs of a handler: the quote random.choice      *)
(* picks, the outcome of the HTTP request of /news                        *)
EnvDefault == [q |-> 1, http |-> [status |-> "fail", h3 |-> <<>>]]

Env(t) ==
    CASE t.fn = "send_quote" ->
           {[EnvDefault EXCEPT !.q = n] : n \in 1..Len(quotes)}
      [] t.fn = "send_news" /\ ChatType(t.chat) = "private" ->
           {[EnvDefault EXCEPT !.http = h] : h \in HttpOutcomes}
      [] OTHER -> {EnvDefault}

Body(t, env) ==
    CASE t.fn = "start" ->
           Say(<<"Hello - this is Artificix bot. Use /help for available commands.">>)
      [] t.fn = "help_cmd" -> Say(<<"Here are the possible commands:\n/alert - set a reminder\n/chat - start an interactive chat\n/news - get latest news headlines\n/about - about this bot\n/contact - contact links\n/quote - random quote\n/extra - extra commands (private chats only)\n">>)
      [] t.fn = "about" ->
           Say(<<"Hi - I'm @Artificix_prototype_bot. I'm a simple Telegram bot that can set alerts and chat with you.">>)
      [] t.fn = "contact" ->
           Say(<<"You can contact us at https://t.me/Sneh_Joshi or https://t.me/Itachi98089">>)
      [] t.fn = "send_quote" -> Say(<<quotes[env.q]>>)
      [] t.fn = "extra" -> extra(t)
      [] IsListCommand(t.fn) ->
           [Quiet EXCEPT
              !.sends = send_list_privately(ChatType(t.chat), ListItems(t.fn))]
      [] t.fn = "get_name" -> get_name(t)
      [] t.fn = "get_min" -> get_min(t)
      [] t.fn = "set_reminder" -> set_reminder(t)
      [] t.fn = "send_news" -> send_news(t, env.http)
      [] t.fn = "send_welcome" ->
           Say(<<"Hi there! I'm a chatbot that can chat with you about your interests. Choose an option:">>)
      [] t.fn = "handle_message" -> handle_message(t)
      [] IsTopicStep(t.fn) -> TopicStep(t)

---------------------------------------------------------------------------
(* The library calls of bot.py *)

NumThreads == 2

(* register_next_step_handler of a backend with one list for all chats *)
register_next_step_handler_global(h, c, cont) ==
    [d \in DOMAIN h |-> Append(h[d], cont)]

(* bot.register_next_step_handler(message, callback, *args): the backend   *)
(* keeps a list of handlers per chat id and appends to it                  *)
register_next_step_handler(h, c, cont) ==
    [h EXCEPT ![c] = Append(h[c], cont)]

(* get_handlers whose read and clear are not atomic: while a handler of    *)
(* the chat is still queued, the list is read but not cleared              *)
get_handlers_racy(h, c) ==
    [taken |-> h[c],
     rest  |-> IF \E i \in 1..Len(tasks) : tasks[i].chat = c THEN h
               ELSE [h EXCEPT ![c] = <<>>]]

(* get_handlers that reads the list without popping it *)
get_handlers_peek(h, c) == [taken |-> h[c], rest |-> h]

(* What the polling loop does first with a message of chat c: it pops the  *)
(* chat's whole list of next-step handlers (taken) and leaves none (rest)  *)
get_handlers(h, c) ==
    [taken |-> h[c], rest |-> [h EXCEPT ![c] = <<>>]]

Task(fn, c, text, args) == [fn |-> fn, chat |-> c, text |-> text, args |-> args]

(* schedule_reminder that passes the minutes to the Timer as seconds *)
schedule_reminder_seconds(chat_id, minutes, text) ==
    [chat |-> chat_id, delay |-> minutes, text |-> text,
     remaining |-> minutes, state |-> "waiting"]

(* schedule_reminder: a started one-shot threading.Timer of minutes * 60   *)
(* seconds whose callback sends "Reminder: " + text to chat_id             *)
schedule_reminder(chat_id, minutes, text) ==
    [chat |-> chat_id, delay |-> minutes * 60, text |-> text,
     remaining |-> minutes * 60, state |-> "waiting"]

(* the send closure of schedule_reminder *)
send(tm) == <<"Reminder: ">> \o Str(tm.text)

Sent(c, text, ok) == [chat |-> c, text |-> text, ok |-> ok]

Event(type, c, text, fn, args, n, exc) ==
    [type |-> type, chat |-> c, text |-> text, fn |-> fn, args |-> args,
     n |-> n, exc |-> exc]

RemoveAt(seq, i) == SubSeq(seq, 1, i - 1) \o SubSeq(seq, i + 1, Len(seq))

Min(a, b) == IF a < b THEN a ELSE b

---------------------------------------------------------------------------
(* The state machine *)

Init ==
    /\ handlers = [c \in Chats |-> <<>>]
    /\ tasks = <<>>
    /\ timers = <<>>
    /\ out = <<>>
    /\ ev = Event("init", 0, None, "", <<>>, 0, "none")
    /\ alive = TRUE
    /\ nmsgs = [c \in Chats |-> 0]
    /\ ret = NoCall

(* Receive that lets a command win over a pending next-step handler *)
Receive_command_first(c, text) ==
    /\ alive
    /\ nmsgs' = [nmsgs EXCEPT ![c] = @ + 1]
    /\ LET got == get_handlers(handlers, c) IN
       IF got.taken # <<>> /\ ~IsCommand(text)
       THEN /\ handlers' = got.rest
            /\ tasks' = tasks \o [i \in 1..Len(got.taken) |->
                            Task(got.taken[i].fn, c, text, got.taken[i].args)]
            /\ ev' = Event("recv", c, text, "step", <<>>, Len(got.taken), "none")
       ELSE /\ handlers' = handlers
            /\ tasks' = IF Dispatch(text) = "none" THEN tasks
                        ELSE Append(tasks, Task(Dispatch(text), c, text, <<>>))
            /\ ev' = Event("recv", c, text, Dispatch(text), <<>>, 0, "none")
    /\ out' = <<>>
    /\ UNCHANGED <<timers, alive, ret>>

(* The polling thread processes one inbound message: a chat with pending   *)
(* next-step handlers gets them all popped and queued for the worker pool  *)
(* and the message goes no further; otherwise the first matching           *)
(* decorator handler is queued.                                            *)
Receive(c, text) ==
    /\ alive
    /\ nmsgs' = [nmsgs EXCEPT ![c] = @ + 1]
    /\ LET got == get_handlers(handlers, c) IN
       IF got.taken # <<>>
       THEN /\ handlers' = got.rest
            /\ tasks' = tasks \o [i \in 1..Len(got.taken) |->
                            Task(got.taken[i].fn, c, text, got.taken[i].args)]
            /\ ev' = Event("recv", c, text, "step", <<>>, Len(got.taken), "none")
       ELSE /\ handlers' = handlers
            /\ tasks' = IF Dispatch(text) = "none" THEN tasks
                        ELSE Append(tasks, Task(Dispatch(text), c, text, <<>>))
            /\ ev' = Event("recv", c, text, Dispatch(text), <<>>, 0, "none")
    /\ out' = <<>>
    /\ UNCHANGED <<timers, alive, ret>>

(* Run of handlers that schedule the reminder before they confirm it *)
Run_schedule_first(i, fail, kind) ==
    /\ alive
    /\ i \in 1..Min(NumThreads, Len(tasks))
    /\ \E env \in Env(tasks[i]) :
       LET t == tasks[i]
           b == Body(t, env)
           exc == IF b.raise # "none" THEN b.raise
                  ELSE IF fail = 0 THEN "none" ELSE kind
       IN  /\ fail \in 0..Len(b.sends)
           /\ fail = 0 => kind = "api"
           /\ tasks' = RemoveAt(tasks, i)
           /\ out' = IF fail = 0
                     THEN [k \in 1..Len(b.sends) |-> Sent(t.chat, b.sends[k], TRUE)]
                     ELSE [k \in 1..fail |-> Sent(t.chat, b.sends[k], k < fail)]
           /\ handlers' = IF exc = "none" /\ b.reg # <<>>
                          THEN register_next_step_handler(handlers, t.chat, b.reg[1])
                          ELSE handlers
           /\ timers' = IF b.raise = "none" /\ b.sched # <<>>
                        THEN Append(timers,
                                    schedule_reminder(b.sched[1].chat,
                                                      b.sched[1].minutes,
                                                      b.sched[1].text))
                        ELSE timers
           /\ alive' = (exc \in {"none", "api"})
           /\ ev' = Event("run", t.chat, t.text, t.fn, t.args, i, exc)
           /\ ret' = IF t.fn = "send_news" /\ ChatType(t.chat) = "private"
                     THEN Call(env.http, MAX_NEWS_ITEMS)
                     ELSE ret
    /\ UNCHANGED nmsgs

(* A worker thread runs one queued handler to its end.  fail = 0: every    *)
(* send succeeds; fail = k: the k-th send raises (kind "api": an           *)
(* ApiException, which polling(none_stop=True) logs; kind "net": any other *)
(* exception, which escapes bot.polling and ends the process, as does the  *)
(* TypeError of int(None)).                                                *)
Run(i, fail, kind) ==
    /\ alive
    /\ i \in 1..Min(NumThreads, Len(tasks))
    /\ \E env \in Env(tasks[i]) :
       LET t == tasks[i]
           b == Body(t, env)
           exc == IF b.raise # "none" THEN b.raise
                  ELSE IF fail = 0 THEN "none" ELSE kind
       IN  /\ fail \in 0..Len(b.sends)
           /\ fail = 0 => kind = "api"
           /\ tasks' = RemoveAt(tasks, i)
           /\ out' = IF fail = 0
                     THEN [k \in 1..Len(b.sends) |-> Sent(t.chat, b.sends[k], TRUE)]
                     ELSE [k \in 1..fail |-> Sent(t.chat, b.sends[k], k < fail)]
           /\ handlers' = IF exc = "none" /\ b.reg # <<>>
                          THEN register_next_step_handler(handlers, t.chat, b.reg[1])
                          ELSE handlers
           /\ timers' = IF exc = "none" /\ b.sched # <<>>
                        THEN Append(timers,
                                    schedule_reminder(b.sched[1].chat,
                                                      b.sched[1].minutes,
                                                      b.sched[1].text))
                        ELSE timers
           /\ alive' = (exc \in {"none", "api"})
           /\ ev' = Event("run", t.chat, t.text, t.fn, t.args, i, exc)
           /\ ret' = IF t.fn = "send_news" /\ ChatType(t.chat) = "private"
                     THEN Call(env.http, MAX_NEWS_ITEMS)
                     ELSE ret
    /\ UNCHANGED nmsgs

(* Fire of a periodic timer: the Timer stays armed after its callback *)
Fire_repeat(i, ok) ==
    /\ alive
    /\ i \in 1..Len(timers)
    /\ timers[i].state = "waiting"
    /\ timers[i].remaining = 0
    /\ timers' = timers
    /\ out' = <<Sent(timers[i].chat, send(timers[i]), ok)>>
    /\ ev' = Event("fire", timers[i].chat, timers[i].text, "send", <<>>, i,
                   IF ok THEN "none" ELSE "swallowed")
    /\ UNCHANGED <<handlers, tasks, alive, nmsgs, ret>>

(* Fire without the try/except of send: a failing send ends the process *)
Fire_uncaught(i, ok) ==
    /\ alive
    /\ i \in 1..Len(timers)
    /\ timers[i].state = "waiting"
    /\ timers[i].remaining = 0
    /\ timers' = [timers EXCEPT ![i].state = "finished"]
    /\ out' = <<Sent(timers[i].chat, send(timers[i]), ok)>>
    /\ ev' = Event("fire", timers[i].chat, timers[i].text, "send", <<>>, i,
                   IF ok THEN "none" ELSE "swallowed")
    /\ alive' = ok
    /\ UNCHANGED <<handlers, tasks, nmsgs, ret>>

(* Fire of a callback that runs on the handler threads: it waits until no *)
(* handler is queued                                                       *)
Fire_blocked(i, ok) ==
    /\ alive
    /\ tasks = <<>>
    /\ i \in 1..Len(timers)
    /\ timers[i].state = "waiting"
    /\ timers[i].remaining = 0
    /\ timers' = [timers EXCEPT ![i].state = "finished"]
    /\ out' = <<Sent(timers[i].chat, send(timers[i]), ok)>>
    /\ ev' = Event("fire", timers[i].chat, timers[i].text, "send", <<>>, i,
                   IF ok THEN "none" ELSE "swallowed")
    /\ UNCHANGED <<handlers, tasks, alive, nmsgs, ret>>

(* The Timer thread of reminder i runs its callback once the delay has     *)
(* elapsed; a failing send is caught and logged inside the callback.       *)
Fire(i, ok) ==
    /\ alive
    /\ i \in 1..Len(timers)
    /\ timers[i].state = "waiting"
    /\ timers[i].remaining = 0
    /\ timers' = [timers EXCEPT ![i].state = "finished"]
    /\ out' = <<Sent(timers[i].chat, send(timers[i]), ok)>>
    /\ ev' = Event("fire", timers[i].chat, timers[i].text, "send", <<>>, i,
                   IF ok THEN "none" ELSE "swallowed")
    /\ UNCHANGED <<handlers, tasks, alive, nmsgs, ret>>

(* Tick of a scheduler with one shared countdown: only the oldest waiting *)
(* timer advances                                                         *)
Tick_shared ==
    /\ alive
    /\ \E i \in 1..Len(timers) :
          timers[i].state = "waiting" /\ timers[i].remaining > 0
    /\ LET first == CHOOSE i \in 1..Len(timers) :
                       /\ timers[i].state = "waiting" /\ timers[i].remaining > 0
                       /\ \A j \in 1..(i - 1) :
                             ~(timers[j].state = "waiting" /\ timers[j].remaining > 0)
       IN  timers' = [timers EXCEPT ![first].remaining = @ - 60]
    /\ out' = <<>>
    /\ ev' = Event("tick", 0, None, "", <<>>, 0, "none")
    /\ UNCHANGED <<handlers, tasks, alive, nmsgs, ret>>

(* One minute passes for every Timer that is still waiting *)
Tick ==
    /\ alive
    /\ \E i \in 1..Len(timers) :
          timers[i].state = "waiting" /\ timers[i].remaining > 0
    /\ timers' = [i \in 1..Len(timers) |->
                    IF timers[i].state = "waiting" /\ timers[i].remaining > 0
                    THEN [timers[i] EXCEPT !.remaining = @ - 60]
                    ELSE timers[i]]
    /\ out' = <<>>
    /\ ev' = Event("tick", 0, None, "", <<>>, 0, "none")
    /\ UNCHANGED <<handlers, tasks, alive, nmsgs, ret>>

InTexts ==
    { <<"/", "alert">>, <<"/", "help">>, <<"Sports">>, <<"milk">>,
      <<"2">>, <<"-", "5">>, <<"0">>, None }

MaxSends == Len(ListItems("flower"))

Work ==
    \/ \E i \in 1..NumThreads, fail \in 0..MaxSends, kind \in {"api", "net"} :
          Run(i, fail, kind)
    \/ \E i \in 1..Len(timers), ok \in BOOLEAN : Fire(i, ok)
    \/ Tick

(* The worker threads alone: the steps of a process in which no reminder  *)
(* is ever scheduled, so that no Timer thread exists                       *)
Handle ==
    \E i \in 1..NumThreads, fail \in 0..MaxSends, kind \in {"api", "net"} :
       Run(i, fail, kind)

RECURSIVE SumOver(_, _)
SumOver(f, S) ==
    IF S = {} THEN 0
    ELSE LET x == CHOOSE y \in S : TRUE IN f[x] + SumOver(f, S \ {x})

Delivered == SumOver(nmsgs, Chats)

Next ==
    \/ \E c \in Chats, text \in InTexts :
          Delivered < MaxMsgs /\ Receive(c, text)
    \/ Work

Spec == Init /\ [][Next]_vars

(* The reminder dialogue, repeated, in every chat: /alert, the reminder    *)
(* text, the minutes (chat 1 asks for 1 minute, chat 2 for 2 minutes)      *)
Script(c, k) ==
    CASE k % 3 = 0 -> <<"/", "alert">>
      [] k % 3 = 1 -> <<"milk">>
      [] k % 3 = 2 -> IntToText(c)

NextRem ==
    \/ \E c \in Chats :
          Delivered < MaxRemMsgs /\ Receive(c, Script(c, nmsgs[c]))
    \/ Work

SpecRem == Init /\ [][NextRem]_vars

(* The private-only commands, issued in the private and in the group chat *)
PrivateOnly == <<"extra", "flower", "animal", "food", "vehicle", "country",
                 "wonder", "news">>

NextCmd ==
    \/ \E c \in Chats, k \in 1..Len(PrivateOnly) :
          Delivered < MaxCmdMsgs /\ Receive(c, <<"/", PrivateOnly[k]>>)
    \/ Handle

SpecCmd == Init /\ [][NextCmd]_vars

(* A topic chat: a chat opens with one of the four keywords and then      *)
(* replies with a sport, a command, a keyword or a message without text,  *)
(* each time after the handler of its previous message has run            *)
Keywords == { <<"Sports">>, <<"Reading">>, <<"Music">>, <<"Art">> }

Replies == { <<"Baseball">>, <<"/", "alert">>, <<"Art">>, None }

Answered(c) == \A i \in 1..Len(tasks) : tasks[i].chat # c

NextTopic ==
    \/ \E c \in Chats :
          \E text \in IF nmsgs[c] = 0 THEN Keywords ELSE Replies :
             Delivered < MaxTopicMsgs /\ Answered(c) /\ Receive(c, text)
    \/ Handle

SpecTopic == Init /\ [][NextTopic]_vars

(* Chat 1 goes through the reminder dialogue while chat 2 sends texts that *)
(* no handler answers (a lower-case keyword, an unknown command, small     *)
(* talk, a message without text) and the keyword Sports                    *)
QuietTexts ==
    { <<"sports">>, <<"/", "unknown">>, <<"hello">>, None, <<"Sports">> }

NextQuiet ==
    \/ \E text \in QuietTexts :
          Delivered < MaxQuietMsgs /\ Receive(2, text)
    \/ Delivered < MaxQuietMsgs /\ Receive(1, Script(1, nmsgs[1]))
    \/ Work

SpecQuiet == Init /\ [][NextQuiet]_vars

(* fetch_bbc_headlines called on every outcome of the request, with every *)
(* limit                                                                   *)
Fetch(http, limit) ==
    /\ ret' = Call(http, limit)
    /\ UNCHANGED <<handlers, tasks, timers, out, ev, alive, nmsgs>>

NextFetch == \E http \in HttpOutcomes, limit \in 0..MaxLimit : Fetch(http, limit)

SpecFetch == Init /\ [][NextFetch]_vars

(* Timer threads are scheduled and time passes while the process runs *)
FireAny == \E i \in 1..Len(timers), ok \in BOOLEAN : Fire(i, ok)

SpecRemFair == SpecRem /\ WF_vars(Tick) /\ WF_vars(FireAny)

TypeOK ==
    /\ alive \in BOOLEAN
    /\ \A c \in Chats : nmsgs[c] \in Nat
    /\ \A c \in Chats : \A i \in 1..Len(handlers[c]) : handlers[c][i].fn # ""

---------------------------------------------------------------------------
(* Properties *)

(* The functions that run only as next-step handlers *)
IsStepFn(fn) == fn \in {"get_min", "set_reminder"} \/ IsTopicStep(fn)

NSteps(q) == Cardinality({i \in 1..Len(q) : IsStepFn(q[i].fn)})

Recv == ev'.type = "recv"

Ran(fn) == ev'.type = "run" /\ ev'.fn = fn

(* C1: continuations are consumed exactly once.  A message of chat c takes *)
(* every pending continuation of c: afterwards none is pending for c, each *)
(* taken continuation is queued for exactly one invocation, and a message  *)
(* that finds no continuation is routed by the decorators (a command       *)
(* handler, handle_message, or nothing), never to a step function; an      *)
(* invocation that runs leaves the queue.                                  *)
ConsumedOnce ==
    [][ /\ Recv =>
             /\ handlers'[ev'.chat] = <<>>
             /\ NSteps(tasks') = NSteps(tasks) + Len(handlers[ev'.chat])
             /\ Len(tasks') <= Len(tasks) + Len(handlers[ev'.chat]) + 1
             /\ handlers[ev'.chat] = <<>> =>
                   /\ ~IsStepFn(ev'.fn)
                   /\ ev'.fn = Dispatch(ev'.text)
        /\ ev'.type = "run" => tasks' = RemoveAt(tasks, ev'.n)
      ]_vars

(* C1 witness: a message found no continuation because the previous        *)
(* message of its chat took it (get_min is still queued for that message)  *)
ConsumedOnceWitness ==
    /\ ev.type = "recv"
    /\ ev.fn \in {"handle_message", "get_name"}
    /\ handlers[ev.chat] = <<>>
    /\ \E i \in 1..Len(tasks) : tasks[i].chat = ev.chat /\ tasks[i].fn = "get_min"

(* C2: in every reachable state each chat has at most one pending          *)
(* continuation (a registration replaces the pending one).                 *)
AtMostOnePending == \A c \in Chats : Len(handlers[c]) <= 1

(* C3: dispatch priority.  A message of a chat with a pending continuation *)
(* is handed to the pending continuation(s) with the message as received   *)
(* and to nothing else, whatever its text: the queue grows by exactly      *)
(* those invocations, and no continuation is registered by the dispatch.   *)
ContinuationFirst ==
    [][ (Recv /\ handlers[ev'.chat] # <<>>) =>
           LET c == ev'.chat
               k == Len(handlers[c])
           IN  /\ ev'.fn = "step"
               /\ Len(tasks') = Len(tasks) + k
               /\ SubSeq(tasks', 1, Len(tasks)) = tasks
               /\ \A j \in 1..k :
                     tasks'[Len(tasks) + j] =
                        [fn |-> handlers[c][j].fn, chat |-> c,
                         text |-> ev'.text, args |-> handlers[c][j].args]
               /\ \A d \in Chats : handlers'[d] = IF d = c THEN <<>> ELSE handlers[d]
               /\ timers' = timers
      ]_vars

(* C3 witness: the command /alert arrived while get_min was pending and    *)
(* was handed to get_min                                                   *)
ContinuationFirstWitness ==
    /\ ev.type = "recv"
    /\ ev.text = <<"/", "alert">>
    /\ ev.fn = "step"
    /\ tasks # <<>>
    /\ tasks[Len(tasks)].fn = "get_min"
    /\ tasks[Len(tasks)].text = <<"/", "alert">>

(* C4: reminder flow, success path (every prompt is delivered).  get_min   *)
(* registers set_reminder with the text of its message verbatim;           *)
(* set_reminder, given a text that parses to N > 0, creates exactly one    *)
(* timer for its chat with delay N * 60 seconds and that text as body, and *)
(* registers nothing; a firing timer sends exactly "Reminder: " followed   *)
(* by the body to the timer's chat.                                        *)
ReminderSuccess ==
    [][ /\ (Ran("get_min") /\ ev'.exc = "none") =>
              handlers'[ev'.chat] =
                 Append(handlers[ev'.chat],
                        [fn |-> "set_reminder", args |-> <<ev'.text>>])
        /\ (Ran("set_reminder") /\ ev'.exc = "none" /\ ev'.text # None
              /\ ParseInt(ev'.text).ok /\ ParseInt(ev'.text).val > 0) =>
              /\ Len(timers') = Len(timers) + 1
              /\ SubSeq(timers', 1, Len(timers)) = timers
              /\ timers'[Len(timers')] =
                    [chat |-> ev'.chat, delay |-> ParseInt(ev'.text).val * 60,
                     text |-> ev'.args[1],
                     remaining |-> ParseInt(ev'.text).val * 60,
                     state |-> "waiting"]
              /\ ev'.text = <<"2">> => timers'[Len(timers')].delay = 120
              /\ handlers' = handlers
        /\ ev'.type = "fire" =>
              /\ Len(out') = 1
              /\ out'[1].chat = timers[ev'.n].chat
              /\ timers[ev'.n].text # None =>
                    out'[1].text = <<"Reminder: ">> \o timers[ev'.n].text
      ]_vars

(* C4 witness: /alert, "milk", "2" in chat 1 ended in a timer of 120       *)
(* seconds that fired and sent "Reminder: milk" to chat 1, nothing pending *)
ReminderSuccessWitness ==
    /\ ev.type = "fire"
    /\ timers[ev.n] = [chat |-> 1, delay |-> 120, text |-> <<"milk">>,
                       remaining |-> 0, state |-> "finished"]
    /\ out = <<[chat |-> 1, text |-> <<"Reminder: ", "milk">>, ok |-> TRUE]>>
    /\ handlers[1] = <<>>

ErrorReplies ==
    { <<"Invalid number of minutes. Please enter a positive integer.">>,
      <<"Please enter a positive number of minutes.">> }

(* C5: reminder flow, error path.  set_reminder, given a text that does    *)
(* not parse as an integer or parses to an integer <= 0, attempts exactly  *)
(* one send, an error reply to its chat, creates no timer and registers no *)
(* continuation (no retry prompt).                                         *)
ReminderError ==
    [][ (Ran("set_reminder") /\ ev'.text # None
           /\ (~ParseInt(ev'.text).ok \/ ParseInt(ev'.text).val <= 0)) =>
           /\ Len(out') = 1
           /\ out'[1].chat = ev'.chat
           /\ out'[1].text \in ErrorReplies
           /\ timers' = timers
           /\ handlers' = handlers
      ]_vars

(* C5 witness: "-5" in the minutes step got the error reply; no timer      *)
(* exists and nothing is pending for the chat                              *)
ReminderErrorWitness ==
    /\ ev.type = "run"
    /\ ev.fn = "set_reminder"
    /\ ev.text = <<"-", "5">>
    /\ out = <<[chat |-> ev.chat,
                text |-> <<"Please enter a positive number of minutes.">>,
                ok |-> TRUE]>>
    /\ timers = <<>>
    /\ handlers[ev.chat] = <<>>

Waiting(i) == timers[i].state = "waiting"

AllFired == \A i \in 1..Len(timers) : timers[i].state = "finished"

(* C6: every scheduled reminder fires exactly once.  While the process     *)
(* runs every timer eventually runs its callback; a timer changes state    *)
(* only by its own callback, from waiting to finished, with one send       *)
(* attempt; a finished timer never changes again; no timer is removed,     *)
(* redirected, re-armed or postponed, and receiving a message changes no   *)
(* timer.                                                                  *)
FiresOnce ==
    /\ [][ /\ Len(timers') >= Len(timers)
           /\ \A i \in 1..Len(timers) :
                 /\ timers'[i].chat = timers[i].chat
                 /\ timers'[i].text = timers[i].text
                 /\ timers'[i].delay = timers[i].delay
                 /\ timers'[i].remaining <= timers[i].remaining
                 /\ timers[i].state = "finished" => timers'[i] = timers[i]
                 /\ timers'[i].state # timers[i].state =>
                       /\ ev'.type = "fire" /\ ev'.n = i
                       /\ timers'[i].state = "finished"
           /\ ev'.type = "fire" =>
                 /\ Waiting(ev'.n)
                 /\ timers'[ev'.n].state = "finished"
                 /\ Len(out') = 1
           /\ Recv => timers' = timers
         ]_vars
    /\ []<>(~alive \/ AllFired)

(* C6 witness: a reminder has fired while the process is running *)
FiresOnceWitness ==
    /\ alive
    /\ ev.type = "fire"
    /\ timers[ev.n].state = "finished"
    /\ AllFired

(* C7: a failing send of a firing reminder is swallowed.  The timer is     *)
(* consumed, the process keeps running, and every other timer, every       *)
(* pending continuation and every queued handler is unchanged.             *)
SwallowedFailure ==
    [][ (ev'.type = "fire" /\ ~out'[1].ok) =>
           /\ alive'
           /\ ev'.exc = "swallowed"
           /\ timers'[ev'.n].state = "finished"
           /\ Len(timers') = Len(timers)
           /\ \A j \in 1..Len(timers) : j # ev'.n => timers'[j] = timers[j]
           /\ handlers' = handlers
           /\ tasks' = tasks
      ]_vars

(* C7 witness: the send of one reminder failed while another reminder is   *)
(* still waiting; the process is running                                   *)
SwallowedFailureWitness ==
    /\ alive
    /\ ev.type = "fire"
    /\ ~out[1].ok
    /\ timers[ev.n].state = "finished"
    /\ \E j \in 1..Len(timers) : j # ev.n /\ Waiting(j)

(* C8: reminders fire independently.  A callback runs only when its own    *)
(* delay has elapsed, sends its own text to its own chat and changes no    *)
(* other timer, whether its send succeeds or fails; every waiting timer    *)
(* counts down by the same 60 seconds per minute whatever other timers     *)
(* exist; creating a timer changes no existing timer.                      *)
IndependentReminders ==
    [][ /\ ev'.type = "fire" =>
              /\ timers[ev'.n].remaining = 0
              /\ out' = <<[chat |-> timers[ev'.n].chat,
                           text |-> <<"Reminder: ">> \o
                                      (IF timers[ev'.n].text = None
                                       THEN <<"None">> ELSE timers[ev'.n].text),
                           ok |-> out'[1].ok]>>
              /\ \A j \in 1..Len(timers) : j # ev'.n => timers'[j] = timers[j]
        /\ ev'.type = "tick" =>
              \A j \in 1..Len(timers) :
                 timers'[j] =
                    IF Waiting(j) /\ timers[j].remaining > 0
                    THEN [timers[j] EXCEPT !.remaining = @ - 60]
                    ELSE timers[j]
        /\ ev'.type \in {"run", "recv"} =>
              SubSeq(timers', 1, Len(timers)) = timers
      ]_vars

(* C8 witness: reminders of 60 and 120 seconds exist for two chats; the    *)
(* one has fired, the other is still counting down                         *)
IndependentRemindersWitness ==
    \E i, j \in 1..Len(timers) :
       /\ timers[i].chat # timers[j].chat
       /\ timers[i].delay # timers[j].delay
       /\ timers[i].state = "finished"
       /\ Waiting(j) /\ timers[j].remaining > 0

(* The /alert dialogues a chat has started, and what is left of them: each *)
(* dialogue is at any time one queued handler, one pending continuation or *)
(* one timer, or has ended                                                 *)
FlowsStarted(c) == (nmsgs[c] + 2) \div 3

FlowTokens(c) ==
    Cardinality({i \in 1..Len(tasks) :
                    tasks[i].chat = c
                    /\ tasks[i].fn \in {"get_name", "get_min", "set_reminder"}})
      + Len(handlers[c])
      + Cardinality({i \in 1..Len(timers) : timers[i].chat = c})

(* C9: atomic take.  However the messages of a chat interleave with the    *)
(* handlers still running for it, a continuation is retrieved by at most   *)
(* one message: a dialogue is never duplicated, so a chat never has more   *)
(* queued /alert handlers, pending continuations and reminders together    *)
(* than /alert dialogues it started.                                       *)
AtomicTake == \A c \in Chats : FlowTokens(c) <= FlowsStarted(c)

(* C9 witness: two messages of one chat are in flight in the minutes step: *)
(* the first took set_reminder, the second found nothing and was routed to *)
(* a decorator handler                                                     *)
AtomicTakeWitness ==
    \E i, j \in 1..Len(tasks) :
       /\ i < j
       /\ tasks[i].chat = tasks[j].chat
       /\ tasks[i].fn = "set_reminder"
       /\ tasks[j].fn \in {"get_name", "handle_message"}
       /\ handlers[tasks[i].chat] = <<>>

(* C10: scheduling is non-blocking in both directions.  With timers        *)
(* outstanding every chat's next message can be received and a queued      *)
(* handler can run; a timer whose delay has elapsed can fire whatever is   *)
(* queued or pending; and set_reminder returns with its timer still        *)
(* waiting for the whole delay.                                            *)
NonBlocking ==
    /\ \A c \in Chats : alive => ENABLED Receive(c, Script(c, nmsgs[c]))
    /\ (alive /\ tasks # <<>>) => ENABLED Run(1, 0, "api")
    /\ \A i \in 1..Len(timers) :
          (alive /\ Waiting(i) /\ timers[i].remaining = 0) => ENABLED Fire(i, TRUE)
    /\ (ev.type = "run" /\ ev.fn = "set_reminder" /\ ev.exc = "none"
          /\ ParseInt(ev.text).ok /\ ParseInt(ev.text).val > 0) =>
          /\ timers # <<>>
          /\ Waiting(Len(timers))
          /\ timers[Len(timers)].remaining = timers[Len(timers)].delay
          /\ timers[Len(timers)].delay > 0

(* C10 witness: a reminder is due while a handler is queued and a          *)
(* continuation is pending in another chat                                 *)
NonBlockingWitness ==
    /\ alive
    /\ tasks # <<>>
    /\ \E i \in 1..Len(timers) :
          /\ Waiting(i) /\ timers[i].remaining = 0
          /\ \E c \in Chats : c # timers[i].chat /\ handlers[c] # <<>>

Refusals ==
    { <<"The /extra command and its subcommands are not available in group chats.">>,
      <<"This command is only available in private chats.">>,
      <<"News is not available in group chats.">> }

Texts(sent) == [k \in 1..Len(sent) |-> sent[k].text]

IsPrefix(a, b) == Len(a) <= Len(b) /\ SubSeq(b, 1, Len(a)) = a

(* What a private-only handler has to deliver in a private chat: the       *)
(* sub-command overview of extra, the items of a list command one per      *)
(* message; empty for news, whose content is whatever was fetched          *)
Content(fn) ==
    IF fn = "extra"
    THEN << <<"Here are the extra commands:\n/flower, /animal, /food, /wonder, /vehicle, /country">> >>
    ELSE [k \in 1..Len(ListItems(fn)) |-> <<ListItems(fn)[k]>>]

IsPrivateOnly(fn) == fn \in {"extra", "send_news"} \/ IsListCommand(fn)

(* C11: private-only commands.  Run for a message of a non-private chat,   *)
(* extra, a list command or news attempts exactly one send, its refusal,   *)
(* and nothing else (news without fetching); run for a message of a        *)
(* private chat it sends its                                               *)
(* content one message per item in list order (all of it when no send      *)
(* fails) and never a refusal.                                             *)
PrivateOnlyCommands ==
    [][ (ev'.type = "run" /\ IsPrivateOnly(ev'.fn)) =>
           IF ChatType(ev'.chat) # "private"
           THEN /\ Len(out') = 1
                /\ out'[1].chat = ev'.chat
                /\ out'[1].text \in Refusals
                /\ ev'.fn = "extra" => out'[1].text =
                      <<"The /extra command and its subcommands are not available in group chats.">>
                /\ ev'.fn = "send_news" =>
                      /\ out'[1].text = <<"News is not available in group chats.">>
                      /\ ret' = ret
           ELSE /\ out' # <<>>
                /\ \A k \in 1..Len(out') :
                      out'[k].chat = ev'.chat /\ out'[k].text \notin Refusals
                /\ ev'.fn # "send_news" =>
                      /\ IsPrefix(Texts(out'), Content(ev'.fn))
                      /\ ev'.exc = "none" => Texts(out') = Content(ev'.fn)
                /\ ev'.fn = "send_news" =>
                      /\ ret'.limit = 10
                      /\ IsPrefix(Texts(out'),
                                  [k \in 1..Len(ret'.headlines) |-> <<ret'.headlines[k]>>])
                      /\ ev'.exc = "none" => Len(out') = Len(ret'.headlines)
                /\ ev'.fn = "flower" /\ ev'.exc = "none" =>
                      /\ Len(out') = 14
                      /\ out'[1].text = <<"Rose">> /\ out'[14].text = <<"Gerbera">>
      ]_vars

(* C11 witness: /food was refused in the group chat with one message and   *)
(* nothing was registered or scheduled                                     *)
PrivateOnlyCommandsWitness ==
    /\ ev.type = "run"
    /\ ev.fn = "food"
    /\ ChatType(ev.chat) = "group"
    /\ out = <<[chat |-> ev.chat,
                text |-> <<"This command is only available in private chats.">>,
                ok |-> TRUE]>>
    /\ handlers[ev.chat] = <<>>

(* C15: fetch_bbc_headlines never raises and always returns a non-empty    *)
(* sequence of strings; when the request or the parse fails it returns     *)
(* exactly one explanatory string; otherwise at most max(limit, 1)         *)
(* distinct headlines of the page, or the one string "No headlines found." *)
FetchTotal ==
    ret # NoCall =>
       /\ Len(ret.headlines) >= 1
       /\ \A k \in 1..Len(ret.headlines) : Len(ret.headlines[k]) > 0
       /\ ret.http.status = "fail" =>
             ret.headlines = <<"Could not fetch news: {e}">>
       /\ ret.http.status = "parse_error" =>
             ret.headlines = <<"Error parsing news page: {e}">>
       /\ ret.http.status = "ok" =>
             \/ ret.headlines = <<"No headlines found.">>
             \/ /\ \A k \in 1..Len(ret.headlines) : Member(ret.headlines[k], ret.http.h3)
                /\ \A j, k \in 1..Len(ret.headlines) :
                      ret.headlines[j] = ret.headlines[k] => j = k
                /\ Len(ret.headlines) <= IF ret.limit = 0 THEN 1 ELSE ret.limit

(* C15 witness: the page had only a too-short h3 text and the call         *)
(* returned the one string "No headlines found."                           *)
FetchTotalWitness ==
    /\ ret.http = [status |-> "ok", h3 |-> <<"News">>]
    /\ ret.headlines = <<"No headlines found.">>

(* C12: Sports chain interpolation.  The step that receives the reply to   *)
(* "What else sports you are interested in?" (handle_new_sport) sends one  *)
(* prompt that embeds the text of that reply verbatim; for the reply       *)
(* "Baseball" the prompt is "have you taken part in Baseball?".            *)
SportsInterpolation ==
    [][ (Ran("handle_new_sport") /\ ev'.text # None) =>
           /\ Len(out') = 1
           /\ out'[1].chat = ev'.chat
           /\ out'[1].text = <<"have you taken part in ">> \o ev'.text \o <<"?">>
           /\ ev'.text = <<"Baseball">> =>
                 out'[1].text = <<"have you taken part in ", "Baseball", "?">>
      ]_vars

(* C12 witness: a chat sent Sports and four replies and then "Baseball";   *)
(* the prompt sent next embeds "Baseball"                                  *)
SportsInterpolationWitness ==
    /\ ev.type = "run"
    /\ ev.fn = "handle_new_sport"
    /\ ev.text = <<"Baseball">>
    /\ nmsgs[ev.chat] = 6
    /\ out = <<[chat |-> ev.chat,
                text |-> <<"have you taken part in ", "Baseball", "?">>,
                ok |-> TRUE]>>
    /\ handlers[ev.chat] = <<[fn |-> "handle_new_hobby", args |-> <<>>]>>

(* The number of prompts of a chain, from the prompt sent on the keyword   *)
(* to the closing acknowledgment                                           *)
RECURSIVE StepsFrom(_)
StepsFrom(fn) == IF StepNext(fn) = "" THEN 1 ELSE 1 + StepsFrom(StepNext(fn))

ChainLen(keyword) == 1 + StepsFrom(KeywordStep(keyword))

ChainStarted ==
    ev.type = "run" /\ ev.fn = "handle_message" /\ KeywordStep(ev.text) # ""

Rank(fn) ==
    CASE fn = "handle_sports_type"    -> 6
      [] fn = "handle_favorite_team"  -> 5
      [] fn = "handle_current_season" -> 4
      [] fn = "handle_next_sport"     -> 3
      [] fn = "handle_new_sport"      -> 2
      [] fn \in {"handle_book_type", "handle_fav_type", "handle_artist"} -> 2
      [] fn \in {"handle_new_hobby", "handle_fav_book", "handle_fav_song",
                 "handle_event_art"} -> 1
      [] OTHER -> 0

ClosingAck(fn) ==
    CASE fn = "handle_new_hobby" -> <<"Great to know!">>
      [] fn = "handle_fav_book"  -> <<"Great to know">>
      [] fn = "handle_fav_song"  -> <<"Great choice!">>
      [] fn = "handle_event_art" -> <<"Great to know!">>
      [] OTHER -> <<>>

(* C17: every topic flow terminates.  The keyword registers a step that is *)
(* a fixed number of replies from the end of its chain (6 for Sports, 2    *)
(* for the others); every step that is not the last registers exactly one  *)
(* step that is one reply closer; the last step sends the closing          *)
(* acknowledgment and registers nothing.                                   *)
TopicTerminates ==
    [][ /\ (Ran("handle_message") /\ ev'.exc = "none"
              /\ ev'.text \in Keywords) =>
              \E fn \in {"handle_sports_type", "handle_book_type",
                         "handle_fav_type", "handle_artist"} :
                 /\ handlers'[ev'.chat] =
                       Append(handlers[ev'.chat], [fn |-> fn, args |-> <<>>])
                 /\ Rank(fn) = IF ev'.text = <<"Sports">> THEN 6 ELSE 2
        /\ (ev'.type = "run" /\ Rank(ev'.fn) > 1 /\ ev'.exc = "none") =>
              /\ Len(handlers'[ev'.chat]) = Len(handlers[ev'.chat]) + 1
              /\ SubSeq(handlers'[ev'.chat], 1, Len(handlers[ev'.chat]))
                    = handlers[ev'.chat]
              /\ Rank(handlers'[ev'.chat][Len(handlers'[ev'.chat])].fn)
                    = Rank(ev'.fn) - 1
        /\ (ev'.type = "run" /\ Rank(ev'.fn) = 1) =>
              /\ handlers' = handlers
              /\ Len(out') = 1
              /\ out'[1].text = ClosingAck(ev'.fn)
      ]_vars

(* C17 witness: the Sports chain has run to its end in seven messages; the *)
(* closing acknowledgment is sent and nothing is pending for the chat      *)
TopicTerminatesWitness ==
    /\ ev.type = "run"
    /\ ev.fn = "handle_new_hobby"
    /\ nmsgs[ev.chat] = 7
    /\ out = <<[chat |-> ev.chat, text |-> <<"Great to know!">>, ok |-> TRUE]>>
    /\ handlers[ev.chat] = <<>>

(* What a queued topic step would do had the reply been x instead *)
Instead(t, x) == Body([t EXCEPT !.text = x], EnvDefault)

(* C18: topic steps are content-independent.  Whatever the reply is (a     *)
(* sport, a command, a keyword, no text), a topic step registers the same  *)
(* successor, schedules nothing and sends the same prompt, except          *)
(* handle_new_sport whose prompt differs only in the interpolated reply;   *)
(* and a reply to a pending step is handed to that step whatever it is.    *)
ContentIndependent ==
    /\ [](\A i \in 1..Len(tasks) :
            IsTopicStep(tasks[i].fn) =>
               \A x \in Replies \cup Keywords :
                  LET a == Body(tasks[i], EnvDefault)
                      b == Instead(tasks[i], x)
                  IN  /\ a.reg = b.reg
                      /\ a.sched = <<>> /\ b.sched = <<>>
                      /\ a.raise = "none" /\ b.raise = "none"
                      /\ Len(a.sends) = 1 /\ Len(b.sends) = 1
                      /\ tasks[i].fn # "handle_new_sport" => a.sends = b.sends
                      /\ tasks[i].fn = "handle_new_sport" =>
                            /\ Head(a.sends[1]) = Head(b.sends[1])
                            /\ a.sends[1][Len(a.sends[1])] = b.sends[1][Len(b.sends[1])])
    /\ [][ (Recv /\ handlers[ev'.chat] # <<>>) =>
              /\ ev'.fn = "step"
              /\ \A j \in 1..Len(handlers[ev'.chat]) :
                    tasks'[Len(tasks) + j].fn = handlers[ev'.chat][j].fn
         ]_vars

(* C18 witness: the reply to "What's your favorite team?" was the command  *)
(* /alert and it is queued for handle_favorite_team                        *)
ContentIndependentWitness ==
    \E i \in 1..Len(tasks) :
       /\ tasks[i].fn = "handle_favorite_team"
       /\ tasks[i].text = <<"/", "alert">>

(* C13 as claimed: error isolation.  No failure raised while a handler of  *)
(* one chat runs (a failing send, or int() of a message without text in    *)
(* the minutes step) ends the process, changes another chat's pending      *)
(* continuations or changes any scheduled reminder.                        *)
ErrorIsolation ==
    [][ (ev'.type = "run" /\ ev'.exc # "none") =>
           /\ alive'
           /\ timers' = timers
           /\ \A c \in Chats \ {ev'.chat} : handlers'[c] = handlers[c]
      ]_vars

(* A text that is neither a registered command nor one of the keywords *)
Ignored(text) == ~IsCommand(text) /\ text \notin Keywords

(* C14: fallback silence.  A message of a chat with nothing pending whose  *)
(* text is neither a registered command nor exactly Sports, Reading, Music *)
(* or Art (a lower-case keyword, an unknown command, no text) sends        *)
(* nothing, registers nothing and schedules nothing: at most handle_message *)
(* is queued for it, and handle_message running on it only leaves the      *)
(* queue.                                                                  *)
FallbackSilence ==
    [][ /\ (Recv /\ handlers[ev'.chat] = <<>> /\ Ignored(ev'.text)) =>
              /\ out' = <<>>
              /\ handlers' = handlers
              /\ timers' = timers
              /\ alive' = alive
              /\ ev'.text = None => tasks' = tasks
              /\ ev'.text # None =>
                    tasks' = Append(tasks, Task("handle_message", ev'.chat,
                                                ev'.text, <<>>))
        /\ (Ran("handle_message") /\ Ignored(ev'.text)) =>
              /\ out' = <<>>
              /\ ev'.exc = "none"
              /\ handlers' = handlers
              /\ timers' = timers
              /\ alive' = alive
              /\ tasks' = RemoveAt(tasks, ev'.n)
      ]_vars

(* C14 witness: handle_message ran on "sports" of chat 2, which has        *)
(* nothing pending, while a reminder of chat 1 is waiting: nothing is sent *)
FallbackSilenceWitness ==
    /\ ev.type = "run"
    /\ ev.fn = "handle_message"
    /\ ev.chat = 2
    /\ ev.text = <<"sports">>
    /\ out = <<>>
    /\ handlers[2] = <<>>
    /\ tasks = <<>>
    /\ \E i \in 1..Len(timers) : timers[i].state = "waiting"

(* C19: a pending continuation is changed only by its own chat.  The       *)
(* pending continuations of chat c (steps and captured reminder text)      *)
(* change only in a step that receives a message of c or runs a handler of *)
(* a message of c: never when time passes, when a reminder fires (for c or *)
(* for another chat), when set_reminder schedules a reminder, or on a      *)
(* message of another chat.                                                *)
OwnChatOnly ==
    [][ /\ \A c \in Chats :
              handlers'[c] # handlers[c] =>
                 /\ ev'.type \in {"recv", "run"}
                 /\ ev'.chat = c
        /\ ev'.type \in {"fire", "tick"} => handlers' = handlers
        /\ Ran("set_reminder") => handlers' = handlers
      ]_vars

(* C19 witness: a reminder fired for chat 1 while chat 1 has a pending     *)
(* set_reminder continuation that holds the text "milk"                    *)
OwnChatOnlyWitness ==
    /\ ev.type = "fire"
    /\ ev.chat = 1
    /\ handlers[1] = <<[fn |-> "set_reminder", args |-> << <<"milk">> >>]>>

Confirmation(minutes, text) ==
    <<"Reminder set for ">> \o IntToText(minutes) \o <<" minutes: ">> \o Str(text)

(* C20: confirm-then-schedule.  set_reminder creates a timer only in a     *)
(* step in which its confirmation "Reminder set for N minutes: T" was      *)
(* delivered, and creates none when a send of it fails; a notification is  *)
(* sent only by a timer that was created in an earlier step, so the        *)
(* confirmation of a reminder precedes its notification.                   *)
ConfirmThenSchedule ==
    [][ /\ (Ran("set_reminder") /\ timers' # timers) =>
              /\ Len(timers') = Len(timers) + 1
              /\ out' = <<[chat |-> ev'.chat,
                           text |-> Confirmation(ParseInt(ev'.text).val,
                                                 ev'.args[1]),
                           ok |-> TRUE]>>
              /\ timers'[Len(timers')].text = ev'.args[1]
        /\ (Ran("set_reminder") /\ ev'.exc # "none") => timers' = timers
        /\ Len(timers') # Len(timers) => Ran("set_reminder")
        /\ ev'.type = "fire" =>
              /\ ev'.n \in 1..Len(timers)
              /\ timers[ev'.n].state = "waiting"
              /\ out'[1].text = send(timers[ev'.n])
      ]_vars

(* C20 witness: the confirmation of set_reminder could not be sent and no  *)
(* timer exists for the chat                                               *)
ConfirmThenScheduleWitness ==
    /\ ev.type = "run"
    /\ ev.fn = "set_reminder"
    /\ ev.exc = "api"
    /\ out = <<[chat |-> ev.chat,
                text |-> Confirmation(ev.chat, <<"milk">>),
                ok |-> FALSE]>>
    /\ \A i \in 1..Len(timers) : timers[i].chat # ev.chat

=============================================================================
